---- MODULE Spec2Model ----
(***************************************************************************)
(* SAIGBOX: the agent's trash workflow (core/saig_assistant.py), the REST  *)
(* trash routes (api/routes/emails.py, api/routes/trash.py) and the mail   *)
(* sync (core/gmail_service.py), over a small mailbox.                     *)
(*                                                                         *)
(* The server keeps no pending action of its own: the pending delete lives *)
(* in the context the frontend posts with every chat message, and          *)
(* process_message returns the context for the frontend to keep.           *)
(***************************************************************************)
EXTENDS Integers, Sequences, FiniteSets, Bags, TLC

----------------------------------------------------------------------------
(* Bounds of the model *)

\* ticks of the clock a pending action stays valid (spec.md: "fixed TTL")
TTL == 1
\* the clock runs from 1 to MaxTime
MaxTime == TTL + 2
\* chat requests posted and not yet handled
MaxInflight == 2
\* proposals made in the conversation
MaxProposals == 2

----------------------------------------------------------------------------
(* The mailbox universe: two messages from Lids at the provider, m2 in the
   mailbox from the start and m1, the more recent, yet to arrive *)

MsgIds == {"m1", "m2"}

\* Email.sender of each message
SenderOf(m) == "lids"

\* Email.received_at of each message
ReceivedAt(m) == IF m = "m1" THEN 2 ELSE 1

Senders == {"lids", "nike"}

\* The emails table holds no row for the message. Of a row the model keeps
\* whether gmail_id and deleted_at are set (IS NOT NULL), and the labels.
NoRow == [row |-> FALSE, gmail_id |-> FALSE, deleted_at |-> FALSE, labels |-> {}]

\* The model gives a provider message one local row: a row deleted for good
\* would come back from a sync under a fresh uuid, which no pending action names.
Purged == [row |-> FALSE, gmail_id |-> TRUE, deleted_at |-> FALSE, labels |-> {}]

----------------------------------------------------------------------------
(* Text: an utterance is the sequence of its characters *)

Utterances == {"Yes, move to trash", "Cancel", "No, don't delete them", "which ones?"}

Chars(u) ==
    CASE u = "Yes, move to trash" ->
           <<"Y","e","s",","," ","m","o","v","e"," ","t","o"," ","t","r","a","s","h">>
      [] u = "Cancel" -> <<"C","a","n","c","e","l">>
      [] u = "No, don't delete them" ->
           <<"N","o",","," ","d","o","n","'","t"," ","d","e","l","e","t","e"," ","t","h","e","m">>
      [] u = "which ones?" -> <<"w","h","i","c","h"," ","o","n","e","s","?">>
      [] u = "delete all emails from Lids" ->
           <<"d","e","l","e","t","e"," ","a","l","l"," ","e","m","a","i","l","s"," ","f","r","o","m"," ","L","i","d","s">>
      [] u = "move the last 20 emails from Lids to trash" ->
           <<"m","o","v","e"," ","t","h","e"," ","l","a","s","t"," ","2","0"," ","e","m","a","i","l","s"," ","f","r","o","m"," ","L","i","d","s"," ","t","o"," ","t","r","a","s","h">>
      [] u = "delete emails about sale" ->
           <<"d","e","l","e","t","e"," ","e","m","a","i","l","s"," ","a","b","o","u","t"," ","s","a","l","e">>
      [] u = "trash what it came from" ->
           <<"t","r","a","s","h"," ","w","h","a","t"," ","i","t"," ","c","a","m","e"," ","f","r","o","m">>

\* str.lower(), on the capitals the texts of the model use
LowerChar(c) ==
    CASE c = "Y" -> "y" [] c = "C" -> "c" [] c = "N" -> "n"
      [] c = "L" -> "l" [] c = "B" -> "b" [] c = "S" -> "s" [] OTHER -> c

Lower(s) == [i \in 1..Len(s) |-> LowerChar(s[i])]

\* str.strip()
RECURSIVE Strip(_)
Strip(s) ==
    IF s = <<>> THEN s
    ELSE IF Head(s) = " " THEN Strip(Tail(s))
    ELSE IF s[Len(s)] = " " THEN Strip(SubSeq(s, 1, Len(s) - 1))
    ELSE s

\* str.replace(c, '')
RECURSIVE Remove(_, _)
Remove(s, c) ==
    IF s = <<>> THEN s
    ELSE IF Head(s) = c THEN Remove(Tail(s), c)
    ELSE <<Head(s)>> \o Remove(Tail(s), c)

\* p in s
Contains(s, p) ==
    \E i \in 1..(Len(s) - Len(p) + 1) : SubSeq(s, i, i + Len(p) - 1) = p

\* any(k in s for k in ks)
AnyIn(ks, s) == \E j \in 1..Len(ks) : Contains(s, ks[j])

Digits == {"0","1","2","3","4","5","6","7","8","9"}

\* s[i..] starts with p
StartsAt(s, i, p) ==
    /\ i >= 1
    /\ i + Len(p) - 1 <= Len(s)
    /\ SubSeq(s, i, i + Len(p) - 1) = p

\* re.search(r'move \d+ selected email[s]? to trash', s)
SelectedPattern(s) ==
    \E i \in 1..Len(s) : \E j \in (i + 5)..Len(s) :
        /\ StartsAt(s, i, <<"m","o","v","e"," ">>)
        /\ \A k \in (i + 5)..j : s[k] \in Digits
        /\ StartsAt(s, j + 1, <<" ","s","e","l","e","c","t","e","d"," ","e","m","a","i","l">>)
        /\ \/ StartsAt(s, j + 16, <<" ","t","o"," ","t","r","a","s","h">>)
           \/ StartsAt(s, j + 16, <<"s"," ","t","o"," ","t","r","a","s","h">>)

confirmation_keywords ==
    << <<"y","e","s">>,
       <<"c","o","n","f","i","r","m">>,
       <<"p","r","o","c","e","e","d">>,
       <<"g","o"," ","a","h","e","a","d">>,
       <<"s","u","r","e">>,
       <<"o","k">>,
       <<"m","o","v","e">>,
       <<"t","r","a","s","h">>,
       <<"d","e","l","e","t","e">> >>

cancellation_keywords ==
    << <<"n","o">>,
       <<"c","a","n","c","e","l">>,
       <<"s","t","o","p">>,
       <<"w","a","i","t">>,
       <<"n","e","v","e","r">>,
       <<"d","o","n","'","t">>,
       <<"a","b","o","r","t">> >>

confirmation_phrases ==
    << <<"y","e","s">>,
       <<"c","o","n","f","i","r","m">>,
       <<"p","r","o","c","e","e","d">>,
       <<"g","o"," ","a","h","e","a","d">>,
       <<"s","u","r","e">>,
       <<"o","k">>,
       <<"m","o","v","e"," ","t","o"," ","t","r","a","s","h">>,
       <<"m","o","v","e"," ","a","l","l"," ","t","o"," ","t","r","a","s","h">>,
       <<"y","e","s",","," ","m","o","v","e">>,
       <<"y","e","s"," ","m","o","v","e">>,
       <<"m","o","v","e"," ","t","h","e","m">>,
       <<"d","e","l","e","t","e">>,
       <<"t","r","a","s","h"," ","t","h","e","m">>,
       <<"y","e","s",","," ","m","o","v","e"," ","a","l","l">>,
       <<"y","e","s"," ","m","o","v","e"," ","a","l","l"," ","t","o"," ","t","r","a","s","h">>,
       <<"m","o","v","e"," ","s","e","l","e","c","t","e","d"," ","t","o"," ","t","r","a","s","h">>,
       <<"s","e","l","e","c","t","e","d"," ","e","m","a","i","l">>,
       <<"s","e","l","e","c","t","e","d"," ","e","m","a","i","l","s"," ","t","o"," ","t","r","a","s","h">> >>

\* process_message: any(keyword in message_lower for keyword in confirmation_keywords)
IsConfirmationKeyword(u) == AnyIn(confirmation_keywords, Strip(Lower(Chars(u))))

\* process_message: any(keyword in message_lower for keyword in cancellation_keywords)
IsCancellationKeyword(u) == AnyIn(cancellation_keywords, Strip(Lower(Chars(u))))

\* _delete_email: message.lower().strip().replace(',', '').replace('.', '')
Normalized(u) == Remove(Remove(Strip(Lower(Chars(u))), ","), ".")

\* _delete_email: is_confirmed, from its three tests in turn
is_confirmed(u) ==
    LET message_lower == Normalized(u)
    IN  \/ AnyIn(confirmation_phrases, message_lower)
        \/ SelectedPattern(message_lower)
        \/ \E j \in 1..Len(confirmation_phrases) : message_lower = confirmation_phrases[j]

\* the utterances _delete_email takes for a confirmation
Confirming == {u \in Utterances : is_confirmed(u)}

----------------------------------------------------------------------------
(* State *)

VARIABLES
    mirror,     \* the emails table: MsgIds -> row
    gmail,      \* the provider's mailbox: MsgIds -> [exists, labels]
    now,        \* datetime.utcnow()
    convCtx,    \* pending_delete of the context process_message last returned
    inflight,   \* bag of posted chat requests, each the pending_delete it carries
    nprop,      \* proposals made so far; numbers the pending actions
    shown,      \* history: ids listed in some proposal
    executed,   \* history: pending actions the trash loop has run for
    closed,     \* history: pending actions confirmed or cancelled
    lastAct,    \* history: what the last step did
    inbox,      \* the emails table the resolver is called on: id -> row
    resolved,   \* the last call of _find_emails_by_description
    patterns,   \* the urgency_patterns rows of the user, in table order
    scored,     \* the last call of should_mark_urgent
    corrections,\* bag of posted urgency corrections not handled yet
    learnt,     \* history of learn_from_correction
    classified, \* the last scoring of an email whose text names deadlines
    owned,      \* the emails table of all users: id -> row with its user_id
    trashed,    \* the last confirmed trash action on that table
    urgent,     \* the urgent-email queue, its flag, its tasks and the rows they read
    fetching    \* one call of fetch_emails: its position and its counters

\* the components added to those looked at on their own
apart == <<classified, owned, trashed, urgent, fetching>>

\* the state of the components that are looked at on their own
aside == <<inbox, resolved, patterns, scored, corrections, learnt, apart>>

vars == <<mirror, gmail, now, convCtx, inflight, nprop, shown, executed, closed, lastAct,
          aside>>

\* the context has no 'pending_delete' key
NoPending == [emails |-> <<>>, timestamp |-> 0, pid |-> 0]

HasPending(p) == p # NoPending

\* the ids of a list of email dicts
Ids(emails) == {emails[i] : i \in 1..Len(emails)}

\* lastAct: the handler that ran (kind), the utterance and pending_delete it
\* was given, the local rows it wrote (changed) and those that differ from
\* before (diff), the ids it handed to the
\* mail-store client (called) and those the provider refused (provider_failed),
\* the messages it mutated locally or at the provider (mutated), its counts and
\* its answer (report), whether the pending action had
\* been executed (again) or confirmed or cancelled (was_closed) before, how
\* many emails the search of a proposal found (found), and the ids in the
\* result of a sync (result)
NoAct == [kind |-> "none", utt |-> "", pending |-> NoPending, changed |-> {},
          diff |-> {},
          called |-> {}, provider_failed |-> {}, mutated |-> {},
          success_count |-> 0, failed_count |-> 0, report |-> "",
          again |-> FALSE, was_closed |-> FALSE, found |-> 0, result |-> {}]

\* resolved: the description and the NLU answer the call was given, the
\* criteria it searched with, the ids it returned, and whether it ended in
\* its except branch
\* scored: the points before the cap, the score, the verdict, what
\* check_sender_importance returned, and whether an ignored or a VIP pattern
\* of the user matches the sender; the sender and sender_name of the email
NoScore == [kind |-> "none", raw |-> 0, score |-> 0, is_urgent |-> FALSE,
            sender_score |-> 0, ignored |-> FALSE, vip |-> FALSE,
            sender |-> <<>>, sender_name |-> <<>>]

\* learnt: per sender domain the calls of learn_from_correction that have
\* returned or raised (handled) and the counts the domain's rows held at the
\* start (initial); the last call: its domain, its correction, whether a row
\* existed before it and whether it raised
NoLearning == [handled |-> <<>>, initial |-> <<>>,
               last |-> [domain |-> <<>>, corrected_to_urgent |-> FALSE,
                         existed |-> FALSE, raised |-> FALSE]]

\* classified: the text (its deadline phrases), the clock when the deadlines
\* were extracted and when they were compared (now), the deadlines extracted,
\* whether the 25 points were added (fired), whether the call raised, the
\* score and verdict it returned, and the score of the other signals (rest)
NoClassification == [kind |-> "none", text |-> <<>>, clock |-> 0, now |-> 0,
                     deadlines |-> {}, fired |-> FALSE, raised |-> FALSE,
                     score |-> 0, is_urgent |-> FALSE, rest |-> 0]

\* trashed: the user who confirmed, the pending list the request carried, the
\* table before, the ids handed to the provider and the counts of the loop
NoTrash == [kind |-> "none", user |-> "", emails |-> <<>>, before |-> <<>>,
            called |-> {}, success_count |-> 0, failed_count |-> 0]

\* urgent: is_urgent and urgency_analyzed_at (analyzed) of each email, how
\* often each was analysed (analyses) and had action items created from it
\* (created); urgent_email_queue; processing_urgent (flag); the
\* process_urgent_emails tasks created so far, each with its position (pc) and
\* the rest of its batch; the manual-process requests handled (manual); and
\* the last request handled
NoUrgent == [is_urgent |-> <<>>, analyzed |-> <<>>, analyses |-> <<>>, created |-> <<>>,
             queue |-> <<>>, flag |-> FALSE, tasks |-> <<>>, manual |-> 0, last |-> "none"]

\* fetching: where the call of fetch_emails is (pc), retry_count, the calls
\* of messages().list made (list_attempts), the messages the last list
\* returned (listed) and how many of them the loop has handled (handled),
\* failed_count, and the kind of result returned
NoFetch == [pc |-> "none", retry_count |-> 0, list_attempts |-> 0, listed |-> 0,
            handled |-> 0, failed_count |-> 0, result |-> "none"]

NoCall == [description |-> "", response |-> [kind |-> "none"], criteria |-> [kind |-> "none"],
           emails |-> <<>>, raised |-> FALSE]

----------------------------------------------------------------------------
(* The mail-store client, core/gmail_service.py *)

\* what the provider does with one call
ProviderOutcomes == {"ok", "error"}

\* messages().trash() at the provider
GmailTrashed(g) == [g EXCEPT !.labels = (@ \ {"INBOX"}) \cup {"TRASH"}]

\* messages().untrash() at the provider
GmailUntrashed(g) == [g EXCEPT !.labels = (@ \ {"TRASH"}) \cup {"INBOX"}]

\* move_to_trash: True when the call went through, False on any exception
move_to_trash(outcome) == outcome = "ok"

\* restore_from_trash: True when the call went through, False on any exception
restore_from_trash(outcome) == outcome = "ok"

\* move_to_label: True when the label was added, False on any exception
move_to_label(outcome) == outcome = "ok"

\* _parse_email: the row a provider message is stored as
parse_email(g) ==
    [row |-> TRUE, gmail_id |-> TRUE, deleted_at |-> "TRASH" \in g.labels,
     labels |-> g.labels]

\* fetch_emails, the body of its loop for one message
SyncOne(mir, g, m) ==
    IF mir[m].row
    THEN [mir EXCEPT ![m] = [@ EXCEPT !.deleted_at = "TRASH" \in g[m].labels,
                                      !.labels = g[m].labels]]
    ELSE IF mir[m] = Purged THEN mir
    ELSE [mir EXCEPT ![m] = parse_email(g[m])]

RECURSIVE SyncAll(_, _, _)
SyncAll(mir, g, S) ==
    IF S = {} THEN mir
    ELSE LET m == CHOOSE x \in S : TRUE
         IN  SyncAll(SyncOne(mir, g, m), g, S \ {m})

\* the provider's answers to the calls made for the ids in S
Outcomes(S) == [S -> ProviderOutcomes]

----------------------------------------------------------------------------
(* The candidate resolver, SAIGAssistant._find_emails_by_description *)

\* limit(50), the default when the criteria carry no count
SafetyCeiling == 50

\* the criteria the NLU call may hand back: a sender or none, a count or none
Criteria == [sender : Senders \cup {""}, count : 0..2]

\* the rows the query's filters keep
Matches(mir, criteria) ==
    {m \in MsgIds : /\ mir[m].row
                    /\ ~mir[m].deleted_at
                    /\ (criteria.sender # "" => SenderOf(m) = criteria.sender)}

\* order_by(Email.received_at.desc())
RECURSIVE OrderByReceivedDesc(_)
OrderByReceivedDesc(S) ==
    IF S = {} THEN <<>>
    ELSE LET m == CHOOSE x \in S : \A y \in S : ReceivedAt(x) >= ReceivedAt(y)
         IN  <<m>> \o OrderByReceivedDesc(S \ {m})

\* limit(n)
Limit(s, n) == SubSeq(s, 1, IF Len(s) < n THEN Len(s) ELSE n)

find_emails_by_description(mir, criteria) ==
    Limit(OrderByReceivedDesc(Matches(mir, criteria)),
          IF criteria.count # 0 THEN criteria.count ELSE SafetyCeiling)

\* _delete_email: the list to propose; the selected email stands in when the
\* search found nothing (looked up by id alone, trashed or not)
emails_to_delete(mir, criteria, selected_email) ==
    LET found == find_emails_by_description(mir, criteria)
    IN  IF found # <<>> THEN found
        ELSE IF selected_email \in MsgIds /\ mir[selected_email].row
             THEN <<selected_email>>
             ELSE <<>>

----------------------------------------------------------------------------
(* The mutation executor: the loop of _delete_email over pending['emails'] *)

\* the local update of one email as db.commit() stores it. deleted_at is
\* assigned. Email.labels is a plain JSON column: the ORM writes it when the
\* attribute is assigned, which the code does only for a row without labels
\* (email.labels = []); append('TRASH') and remove('INBOX') on the list loaded
\* from a row change no attribute and are not written.
trash_locally(e) ==
    [e EXCEPT !.deleted_at = TRUE,
              !.labels = IF @ = {} THEN {"TRASH"} ELSE @]

\* a variant for comparison: the loop resolves the active rows afresh instead of walking the list
pending_emails_resolved_again(pending) ==
    OrderByReceivedDesc({m \in MsgIds : mirror[m].row /\ ~mirror[m].deleted_at})

\* pending['emails'], the list the loop walks
pending_emails(pending) == pending.emails

\* one pass of the loop, for the email id with the provider's answer outcome
TrashStep(st, id, outcome) ==
    LET email == st.mirror[id]
    IN  IF ~email.row
        THEN [st EXCEPT !.failed_count = @ + 1]
        ELSE IF ~email.gmail_id
        THEN [st EXCEPT !.failed_count = @ + 1]
        ELSE \* gmail_result true or false: the same local update, counted a success
             [st EXCEPT
                !.gmail = IF move_to_trash(outcome)
                          THEN [@ EXCEPT ![id] = GmailTrashed(@)] ELSE @,
                !.mirror = [@ EXCEPT ![id] = trash_locally(@)],
                !.called = @ \cup {id},
                !.changed = @ \cup {id},
                !.provider_failed = IF move_to_trash(outcome) THEN @ ELSE @ \cup {id},
                !.success_count = @ + 1]

RECURSIVE TrashLoop(_, _, _)
TrashLoop(st, emails, outcomes) ==
    IF emails = <<>> THEN st
    ELSE TrashLoop(TrashStep(st, Head(emails), outcomes[Head(emails)]),
                   Tail(emails), outcomes)

\* the message _delete_email answers a confirmation with
trash_report(success_count, failed_count) ==
    IF success_count > 0
    THEN IF success_count = 1 THEN "moved_one"
         ELSE IF failed_count > 0 THEN "moved_many_some_failed"
         ELSE "moved_many"
    ELSE "failed_all"

----------------------------------------------------------------------------
(* The initial state: m2 delivered and synced, m1 not yet sent *)

MailInit ==
    /\ gmail = [m \in MsgIds |-> IF m = "m1" THEN [exists |-> FALSE, labels |-> {}]
                                 ELSE [exists |-> TRUE, labels |-> {"INBOX"}]]
    /\ mirror = [m \in MsgIds |-> IF m = "m1" THEN NoRow
                                  ELSE parse_email([exists |-> TRUE, labels |-> {"INBOX"}])]
    /\ now = 1
    /\ convCtx = NoPending
    /\ inflight = EmptyBag
    /\ nprop = 0
    /\ shown = {}
    /\ executed = {}
    /\ closed = {}
    /\ lastAct = NoAct

\* no call of the resolver on its own has been made
ResolverIdle ==
    /\ inbox = <<>>
    /\ resolved = NoCall

\* no urgency pattern, no scoring and no correction
UrgencyIdle ==
    /\ patterns = <<>>
    /\ scored = NoScore
    /\ corrections = EmptyBag
    /\ learnt = NoLearning

\* no email with deadlines has been scored
ApartIdle ==
    /\ classified = NoClassification
    /\ owned = <<>>
    /\ trashed = NoTrash
    /\ urgent = NoUrgent
    /\ fetching = NoFetch

Init ==
    /\ MailInit
    /\ ResolverIdle
    /\ UrgencyIdle
    /\ ApartIdle

----------------------------------------------------------------------------
(* The chat route and SAIGAssistant.process_message *)

\* POST /chat: the frontend posts a message with the context it holds
Send ==
    /\ BagCardinality(inflight) < MaxInflight
    /\ inflight' = inflight (+) SetToBag({convCtx})
    /\ lastAct' = NoAct
    /\ UNCHANGED <<mirror, gmail, now, aside, convCtx, nprop, shown, executed, closed>>

\* the request leaves the bag when process_message returns
Handled(p) == inflight (-) SetToBag({p})

\* process_message with pending_delete in the context and an utterance
\* _delete_email takes for a confirmation: the trash loop runs
Confirm(p, u) ==
    /\ BagIn(p, inflight)
    /\ HasPending(p)
    /\ u \in Confirming
    /\ \E outcomes \in Outcomes(Ids(pending_emails(p))) :
       LET start == [mirror |-> mirror, gmail |-> gmail, called |-> {}, changed |-> {},
                     provider_failed |-> {}, success_count |-> 0, failed_count |-> 0]
           st == TrashLoop(start, pending_emails(p), outcomes)
       IN  /\ mirror' = st.mirror
           /\ gmail' = st.gmail
           /\ lastAct' = [NoAct EXCEPT
                            !.kind = "confirmed", !.utt = u, !.pending = p,
                            !.changed = st.changed, !.called = st.called,
                            !.diff = {m \in MsgIds : st.mirror[m] # mirror[m]},
                            !.provider_failed = st.provider_failed,
                            !.mutated = st.changed,
                            !.success_count = st.success_count,
                            !.failed_count = st.failed_count,
                            !.report = trash_report(st.success_count, st.failed_count),
                            !.again = p.pid \in executed,
                            !.was_closed = p.pid \in closed]
    /\ convCtx' = NoPending
    /\ inflight' = Handled(p)
    /\ executed' = executed \cup {p.pid}
    /\ closed' = closed \cup {p.pid}
    /\ UNCHANGED <<now, aside, nprop, shown>>

\* process_message with pending_delete in the context and any other
\* utterance: _delete_email drops the pending delete, "Action cancelled"
Decline(p, u) ==
    /\ BagIn(p, inflight)
    /\ HasPending(p)
    /\ u \notin Confirming
    /\ convCtx' = NoPending
    /\ inflight' = Handled(p)
    /\ closed' = closed \cup {p.pid}
    /\ lastAct' = [NoAct EXCEPT !.kind = "cancelled", !.utt = u, !.pending = p,
                                !.report = "cancelled",
                                !.again = p.pid \in executed,
                                !.was_closed = p.pid \in closed]
    /\ UNCHANGED <<mirror, gmail, now, aside, nprop, shown, executed>>

\* process_message without pending_delete, intent delete_email: _delete_email
\* resolves the candidates and stores them in the context, or finds none
Propose(p, criteria, selected_email) ==
    /\ BagIn(p, inflight)
    /\ ~HasPending(p)
    /\ LET emails == emails_to_delete(mirror, criteria, selected_email)
       IN  IF emails = <<>>
           THEN /\ convCtx' = NoPending
                /\ lastAct' = [NoAct EXCEPT !.kind = "no_match", !.report = "no_match",
                       !.found = Len(find_emails_by_description(mirror, criteria))]
                /\ UNCHANGED <<nprop, shown>>
           ELSE /\ nprop < MaxProposals
                /\ convCtx' = [emails |-> emails, timestamp |-> now, pid |-> nprop + 1]
                /\ nprop' = nprop + 1
                /\ shown' = shown \cup Ids(emails)
                /\ lastAct' = [NoAct EXCEPT !.kind = "proposed", !.pending = convCtx',
                       !.report = "confirmation_required",
                       !.found = Len(find_emails_by_description(mirror, criteria))]
    /\ inflight' = Handled(p)
    /\ UNCHANGED <<mirror, gmail, now, aside, executed, closed>>

\* what the NLU call of _move_to_folder may hand back: a description of the
\* emails, resolved to criteria, or none, and then the selected email counts
MoveInfos ==
    {[described |-> TRUE, criteria |-> c, selected_email |-> "none"] : c \in Criteria}
    \cup {[described |-> FALSE, criteria |-> [sender |-> "", count |-> 0],
           selected_email |-> e] : e \in MsgIds \cup {"none"}}

\* _move_to_folder: the emails to move, by description or the selected one
emails_to_move(mir, info) ==
    IF info.described THEN find_emails_by_description(mir, info.criteria)
    ELSE IF info.selected_email \in MsgIds /\ mir[info.selected_email].row
         THEN <<info.selected_email>>
         ELSE <<>>

\* _move_to_folder: the ids its loop labels at the provider
Labelled(mir, emails, outcomes) ==
    {emails[i] : i \in {j \in 1..Len(emails) :
                          mir[emails[j]].row /\ move_to_label(outcomes[emails[j]])}}

\* process_message without pending_delete, intent move_to_folder. The model
\* tracks the labels INBOX and TRASH alone, so the folder label the provider
\* gains shows in lastAct.mutated and not in gmail.
MoveToFolder(p, info) ==
    /\ BagIn(p, inflight)
    /\ ~HasPending(p)
    /\ \E outcomes \in Outcomes(Ids(emails_to_move(mirror, info))) :
       LET emails == emails_to_move(mirror, info)
           done == Labelled(mirror, emails, outcomes)
       IN  lastAct' = [NoAct EXCEPT !.kind = "moved", !.mutated = done]
    /\ convCtx' = NoPending
    /\ inflight' = Handled(p)
    /\ UNCHANGED <<mirror, gmail, now, aside, nprop, shown, executed, closed>>

\* process_message without pending_delete, any intent that mutates no email
OtherIntent(p) ==
    /\ BagIn(p, inflight)
    /\ ~HasPending(p)
    /\ convCtx' = NoPending
    /\ inflight' = Handled(p)
    /\ lastAct' = [NoAct EXCEPT !.kind = "other"]
    /\ UNCHANGED <<mirror, gmail, now, aside, nprop, shown, executed, closed>>

----------------------------------------------------------------------------
(* The REST routes *)

\* the row DELETE /emails/{id} leaves: deleted_at set, labels as they were
rest_trashed(e) == [e EXCEPT !.deleted_at = TRUE]

\* the row POST /trash/{id}/restore leaves: deleted_at cleared, labels as they were
rest_restored(e) == [e EXCEPT !.deleted_at = FALSE]

\* a variant for comparison: the local update is made whatever the provider
\* answered
rest_proceeds_always(has_gmail_id, success) == TRUE

\* the REST routes go on to the local update unless the email has a gmail_id
\* and the provider call failed: then they raise HTTPException(500)
rest_proceeds(has_gmail_id, success) == ~has_gmail_id \/ success

\* what a REST trash or restore request did, for lastAct
rest_act(kind, m, success, before, after) ==
    [NoAct EXCEPT !.kind = kind,
                  !.called = IF before[m].gmail_id THEN {m} ELSE {},
                  !.provider_failed = IF before[m].gmail_id /\ ~success THEN {m} ELSE {},
                  !.changed = IF rest_proceeds(before[m].gmail_id, success) THEN {m} ELSE {},
                  !.diff = {x \in MsgIds : after[x] # before[x]},
                  !.report = IF rest_proceeds(before[m].gmail_id, success) THEN "ok"
                             ELSE "error"]

\* DELETE /emails/{id}: 404 unless an active row; 500 when the provider fails
RestDelete(m, outcome) ==
    /\ mirror[m].row
    /\ ~mirror[m].deleted_at
    /\ IF ~rest_proceeds(mirror[m].gmail_id, move_to_trash(outcome))
       THEN UNCHANGED <<mirror, gmail>>
       ELSE /\ mirror' = [mirror EXCEPT ![m] = rest_trashed(@)]
            /\ gmail' = IF mirror[m].gmail_id
                        THEN [gmail EXCEPT ![m] = GmailTrashed(@)] ELSE gmail
    /\ lastAct' = rest_act("rest_delete", m, move_to_trash(outcome), mirror, mirror')
    /\ UNCHANGED <<now, aside, convCtx, inflight, nprop, shown, executed, closed>>

\* POST /trash/{id}/restore: 404 unless a trashed row; 500 when the provider fails
RestRestore(m, outcome) ==
    /\ mirror[m].row
    /\ mirror[m].deleted_at
    /\ IF ~rest_proceeds(mirror[m].gmail_id, restore_from_trash(outcome))
       THEN UNCHANGED <<mirror, gmail>>
       ELSE /\ mirror' = [mirror EXCEPT ![m] = rest_restored(@)]
            /\ gmail' = IF mirror[m].gmail_id
                        THEN [gmail EXCEPT ![m] = GmailUntrashed(@)] ELSE gmail
    /\ lastAct' = rest_act("rest_restore", m, restore_from_trash(outcome), mirror, mirror')
    /\ UNCHANGED <<now, aside, convCtx, inflight, nprop, shown, executed, closed>>

\* DELETE /trash/{id}: the trashed row is deleted for good
PermanentDelete(m) ==
    /\ mirror[m].row
    /\ mirror[m].deleted_at
    /\ mirror' = [mirror EXCEPT ![m] = Purged]
    /\ lastAct' = NoAct
    /\ UNCHANGED <<gmail, now, aside, convCtx, inflight, nprop, shown, executed, closed>>

----------------------------------------------------------------------------
(* Sync and the world outside *)

\* the 'emails' of a sync's result: the rows of the messages it handled
sync_result(mir, S) == {m \in S : mir[m].row}

\* fetch_emails, normal path: the listed messages that could be fetched are
\* stored or updated, and their rows returned
Sync(S) ==
    /\ S # {}
    /\ \A m \in S : gmail[m].exists
    /\ mirror' = SyncAll(mirror, gmail, S)
    /\ lastAct' = [NoAct EXCEPT !.kind = "sync", !.result = sync_result(mirror', S)]
    /\ UNCHANGED <<gmail, now, aside, convCtx, inflight, nprop, shown, executed, closed>>

\* a new message reaches the provider's inbox
Deliver(m) ==
    /\ ~gmail[m].exists
    /\ gmail' = [gmail EXCEPT ![m] = [exists |-> TRUE, labels |-> {"INBOX"}]]
    /\ lastAct' = NoAct
    /\ UNCHANGED <<mirror, now, aside, convCtx, inflight, nprop, shown, executed, closed>>

\* time passes
Tick ==
    /\ now < MaxTime
    /\ now' = now + 1
    /\ lastAct' = NoAct
    /\ UNCHANGED <<mirror, gmail, convCtx, inflight, nprop, shown, executed, closed, aside>>

----------------------------------------------------------------------------

\* the selected email a request may carry; none is tried when the search
\* finds something, since _delete_email reads it only when it found nothing
Selectable(criteria) ==
    IF find_emails_by_description(mirror, criteria) # <<>> THEN {"none"}
    ELSE MsgIds \cup {"none"}

Next ==
    \/ Send
    \/ \E p \in BagToSet(inflight), u \in Utterances : Confirm(p, u)
    \/ \E p \in BagToSet(inflight), u \in Utterances : Decline(p, u)
    \/ \E p \in BagToSet(inflight), criteria \in Criteria :
          \E selected_email \in Selectable(criteria) :
             Propose(p, criteria, selected_email)
    \/ \E p \in BagToSet(inflight), info \in MoveInfos : MoveToFolder(p, info)
    \/ \E p \in BagToSet(inflight) : OtherIntent(p)
    \/ \E m \in MsgIds, outcome \in ProviderOutcomes : RestDelete(m, outcome)
    \/ \E m \in MsgIds, outcome \in ProviderOutcomes : RestRestore(m, outcome)
    \/ \E m \in MsgIds : PermanentDelete(m)
    \/ \E S \in SUBSET MsgIds : Sync(S)
    \/ \E m \in MsgIds : Deliver(m)

Spec == Init /\ [][Next]_vars

\* The conversation alone, with the clock running: no code reads the clock or
\* a stored timestamp, so the mailbox steps above lose nothing by leaving it.
NextClock ==
    \/ Send
    \/ \E p \in BagToSet(inflight), u \in Utterances : Confirm(p, u)
    \/ \E p \in BagToSet(inflight), u \in Utterances : Decline(p, u)
    \/ \E p \in BagToSet(inflight), criteria \in Criteria :
          \E selected_email \in Selectable(criteria) :
             Propose(p, criteria, selected_email)
    \/ Tick

SpecClock == Init /\ [][NextClock]_vars

----------------------------------------------------------------------------
(* Sync on its own: fetch_emails with its two fallback paths, the REST trash
   routes, and the user acting on the mailbox at the provider *)

\* _parse_minimal_email: the row a provider message is stored as from its
\* metadata
parse_minimal_email(g) ==
    [row |-> TRUE, gmail_id |-> TRUE, deleted_at |-> "TRASH" \in g.labels,
     labels |-> g.labels]

\* _fallback_sync, the body of its loop for one message
FallbackSyncOne(mir, g, m) ==
    IF mir[m].row
    THEN [mir EXCEPT ![m] = [@ EXCEPT !.deleted_at = "TRASH" \in g[m].labels,
                                      !.labels = g[m].labels]]
    ELSE IF mir[m] = Purged THEN mir
    ELSE [mir EXCEPT ![m] = parse_minimal_email(g[m])]

RECURSIVE FallbackSyncAll(_, _, _)
FallbackSyncAll(mir, g, S) ==
    IF S = {} THEN mir
    ELSE LET m == CHOOSE x \in S : TRUE
         IN  FallbackSyncAll(FallbackSyncOne(mir, g, m), g, S \ {m})

\* fetch_emails after more than five failures: _fallback_sync goes over the
\* listed messages again by their metadata; S are those it could fetch
FallbackSync(S) ==
    /\ \A m \in S : gmail[m].exists
    /\ mirror' = FallbackSyncAll(mirror, gmail, S)
    /\ lastAct' = [NoAct EXCEPT !.kind = "fallback_sync",
                                !.result = sync_result(mirror', S)]
    /\ UNCHANGED <<gmail, now, aside, convCtx, inflight, nprop, shown, executed, closed>>

\* fetch_emails when the provider cannot be reached: _fallback_basic_sync
\* returns the most recent stored rows, trashed ones included, as they are
FallbackBasicSync ==
    /\ lastAct' = [NoAct EXCEPT !.kind = "fallback_basic_sync",
                                !.result = sync_result(mirror, MsgIds)]
    /\ UNCHANGED <<mirror, gmail, now, aside, convCtx, inflight, nprop, shown, executed,
                   closed>>

\* the user moves a message to the trash in the provider's own interface
TrashAtProvider(m) ==
    /\ gmail[m].exists
    /\ "TRASH" \notin gmail[m].labels
    /\ gmail' = [gmail EXCEPT ![m] = GmailTrashed(@)]
    /\ lastAct' = NoAct
    /\ UNCHANGED <<mirror, now, aside, convCtx, inflight, nprop, shown, executed, closed>>

\* the user takes a message out of the trash in the provider's own interface
RestoreAtProvider(m) ==
    /\ gmail[m].exists
    /\ "TRASH" \in gmail[m].labels
    /\ gmail' = [gmail EXCEPT ![m] = GmailUntrashed(@)]
    /\ lastAct' = NoAct
    /\ UNCHANGED <<mirror, now, aside, convCtx, inflight, nprop, shown, executed, closed>>

NextSync ==
    \/ \E S \in SUBSET MsgIds : Sync(S)
    \/ \E S \in SUBSET MsgIds : FallbackSync(S)
    \/ FallbackBasicSync
    \/ \E m \in MsgIds, outcome \in ProviderOutcomes : RestDelete(m, outcome)
    \/ \E m \in MsgIds, outcome \in ProviderOutcomes : RestRestore(m, outcome)
    \/ \E m \in MsgIds : TrashAtProvider(m)
    \/ \E m \in MsgIds : RestoreAtProvider(m)
    \/ \E m \in MsgIds : Deliver(m)

SpecSync == Init /\ [][NextSync]_vars

----------------------------------------------------------------------------
(* The candidate resolver on its own: _find_emails_by_description from the
   description and the NLU answer to the list it returns. A row keeps the
   columns the modelled filters read; snippet stands for body_text and
   snippet; sender_name is NULL. The filters on read_status, has_attachments
   and time_period are left out: they are further conjuncts of the query. *)

\* most rows of an inbox of the model
MaxMail == 52

\* rows of the inboxes drawn freely
SmallMail == 2

Lids == <<"L","i","d","s">>
Nike == <<"N","i","k","e">>
BigSale == <<"B","i","g"," ","S","a","l","e">>
News == <<"N","e","w","s">>
sale == <<"s","a","l","e">>

\* the descriptions _find_emails_by_description is called with
Descriptions ==
    {"delete all emails from Lids",
     "move the last 20 emails from Lids to trash",
     "delete emails about sale",
     "trash what it came from"}

EmptyCriteria == [kind |-> "dict", sender |-> <<>>, subject |-> <<>>, content |-> <<>>,
                  count |-> 0]

\* what _call_anthropic hands back: an "Error..." string, JSON that is not an
\* object, text that is not JSON, or a JSON object with some of the fields
Responses ==
    {[kind |-> k] : k \in {"error", "non_dict", "unparseable"}}
    \cup [kind : {"dict"}, sender : {<<>>, Lids, Nike}, subject : {<<>>, sale},
          content : {<<>>, sale}, count : {0, 1, 20}]

\* the first index at which p occurs in s, 0 when it does not
Find(s, p) ==
    IF Contains(s, p)
    THEN CHOOSE i \in 1..Len(s) : StartsAt(s, i, p) /\ \A j \in 1..(i - 1) : ~StartsAt(s, j, p)
    ELSE 0

\* s.split('from')[1], for s that holds 'from'
SplitFrom1(s) ==
    LET from == <<"f","r","o","m">>
        rest == SubSeq(s, Find(s, from) + 4, Len(s))
    IN  IF Contains(rest, from) THEN SubSeq(rest, 1, Find(rest, from) - 1) ELSE rest

\* s.split()[0], for s that holds a word
FirstWord(s) ==
    LET t == Strip(s)
    IN  IF Contains(t, <<" ">>) THEN SubSeq(t, 1, Find(t, <<" ">>) - 1) ELSE t

\* s.strip(chars)
RECURSIVE StripChars(_, _)
StripChars(s, chars) ==
    IF s = <<>> THEN s
    ELSE IF Head(s) \in chars THEN StripChars(Tail(s), chars)
    ELSE IF s[Len(s)] \in chars THEN StripChars(SubSeq(s, 1, Len(s) - 1), chars)
    ELSE s

\* the fallback extraction: the sender after 'from', and nothing else; a
\* description that ends in 'from' makes split()[0] raise IndexError
fallback_criteria(description) ==
    LET description_lower == Lower(Chars(description))
    IN  IF Contains(description_lower, <<"f","r","o","m">>)
        THEN LET sender_part == Strip(SplitFrom1(description_lower))
             IN  IF sender_part = <<>> THEN [kind |-> "raised"]
                 ELSE [EmptyCriteria EXCEPT
                         !.sender = StripChars(FirstWord(sender_part), {"\"", "'", "{", "}"})]
        ELSE EmptyCriteria

\* the criteria the search runs with: the parsed object as it is, or the
\* fallback when the answer is an error, not an object, or not JSON
extract_criteria(description, response) ==
    IF response.kind = "dict" THEN response ELSE fallback_criteria(description)

\* column.ilike('%term%')
ilike(column, term) == Contains(Lower(column), Lower(term))

\* a variant for comparison: the query without its filter on deleted_at
query_filter_with_trashed(row, criteria) ==
    /\ criteria.sender # <<>> => ilike(row.sender, criteria.sender)
    /\ criteria.subject # <<>> => ilike(row.subject, criteria.subject)
    /\ criteria.content # <<>> => ilike(row.snippet, criteria.content)

\* the filters of the query on one row
query_filter(row, criteria) ==
    /\ ~row.deleted_at
    /\ criteria.sender # <<>> => ilike(row.sender, criteria.sender)
    /\ criteria.subject # <<>> => ilike(row.subject, criteria.subject)
    /\ criteria.content # <<>> => ilike(row.snippet, criteria.content)

\* order_by(Email.received_at.desc()) over the ids in S
RECURSIVE order_by_received_desc(_, _)
order_by_received_desc(table, S) ==
    IF S = {} THEN <<>>
    ELSE LET i == CHOOSE x \in S : \A y \in S : table[x].received_at >= table[y].received_at
         IN  <<i>> \o order_by_received_desc(table, S \ {i})

\* a variant for comparison: the default limit of SimpleEmailHandler, 100
query_emails_limit_100(table, criteria) ==
    Limit(order_by_received_desc(table,
              {i \in 1..Len(table) : query_filter(table[i], criteria)}),
          IF criteria.count # 0 THEN criteria.count ELSE 100)

\* the query with its limit: criteria['count'] when set, 50 otherwise
query_emails(table, criteria) ==
    Limit(order_by_received_desc(table,
              {i \in 1..Len(table) : query_filter(table[i], criteria)}),
          IF criteria.count # 0 THEN criteria.count ELSE SafetyCeiling)

\* _find_emails_by_description: the except branch returns the empty list
resolve(table, description, response) ==
    LET criteria == extract_criteria(description, response)
    IN  [description |-> description, response |-> response, criteria |-> criteria,
         emails |-> IF criteria.kind = "raised" THEN <<>> ELSE query_emails(table, criteria),
         raised |-> criteria.kind = "raised"]

\* the rows an inbox drawn freely may hold
Rows == {[sender |-> sd, subject |-> sb,
          snippet |-> IF sb = BigSale THEN News ELSE BigSale,
          received_at |-> t, deleted_at |-> d] :
            sd \in {Lids, Nike}, sb \in {BigSale, News}, t \in 1..SmallMail, d \in BOOLEAN}

SmallInboxes ==
    {t \in [1..SmallMail -> Rows] :
        \A i, j \in 1..SmallMail : i # j => t[i].received_at # t[j].received_at}

\* an inbox of n mails from Lids, received in an order that is not the order
\* of the ids, every tenth of them soft-deleted when d is set
BigInbox(n, d) ==
    [i \in 1..n |-> [sender |-> Lids,
                     subject |-> IF i % 2 = 0 THEN BigSale ELSE News,
                     snippet |-> News,
                     received_at |-> ((i * 7) % 53) + 1,
                     deleted_at |-> d /\ i % 10 = 3]]

BigInboxes == {BigInbox(n, d) : n \in (SafetyCeiling - 1)..MaxMail, d \in BOOLEAN}

InitResolver ==
    /\ MailInit
    /\ UrgencyIdle
    /\ ApartIdle
    /\ inbox \in SmallInboxes \cup BigInboxes
    /\ resolved = NoCall

\* one call of _find_emails_by_description
Resolve(description, response) ==
    /\ resolved = NoCall
    /\ resolved' = resolve(inbox, description, response)
    /\ UNCHANGED <<mirror, gmail, now, convCtx, inflight, nprop, shown, executed, closed,
                   lastAct, inbox, patterns, scored, corrections, learnt, apart>>

NextResolver ==
    \E description \in Descriptions, response \in Responses : Resolve(description, response)

SpecResolver == InitResolver /\ [][NextResolver]_vars

----------------------------------------------------------------------------
(* Urgency scoring: UrgencyDetector.should_mark_urgent. Of the text of an
   email the model keeps what the keyword scans find in it: whether a keyword
   of a list occurs, how many action keywords occur, and so on. The sender is
   kept as text and matched against the patterns as the code does. *)

\* URGENCY_THRESHOLD, by default
urgency_threshold == 40

IMPORTANT_TITLES ==
    << <<"c","e","o">>,
       <<"c","t","o">>,
       <<"c","f","o">>,
       <<"c","o","o">>,
       <<"p","r","e","s","i","d","e","n","t">>,
       <<"v","i","c","e"," ","p","r","e","s","i","d","e","n","t">>,
       <<"v","p">>,
       <<"d","i","r","e","c","t","o","r">>,
       <<"m","a","n","a","g","e","r">>,
       <<"s","u","p","e","r","v","i","s","o","r">>,
       <<"h","e","a","d"," ","o","f">>,
       <<"c","h","i","e","f">>,
       <<"e","x","e","c","u","t","i","v","e">> >>

important_domains ==
    << <<"l","e","g","a","l">>,
       <<"c","o","m","p","l","i","a","n","c","e">>,
       <<"f","i","n","a","n","c","e">>,
       <<"h","r">>,
       <<"s","e","c","u","r","i","t","y">> >>

\* Email.sender, the From header as it came, and Email.sender_name
ScoredSenders ==
    {[sender |-> <<"d","e","a","l","s","@","l","i","d","s",".","c","o","m">>, sender_name |-> <<"d","e","a","l","s","@","l","i","d","s",".","c","o","m">>],
     [sender |-> <<"B","o","s","s"," ","<","c","e","o","@","b","o","s","s",".","c","o","m",">">>, sender_name |-> <<"B","o","s","s">>],
     [sender |-> <<"h","r","@","l","i","d","s",".","c","o","m">>, sender_name |-> <<"h","r","@","l","i","d","s",".","c","o","m">>]}

\* the emails should_mark_urgent is called on
ScoredEmails ==
    {[sender |-> sn.sender, sender_name |-> sn.sender_name,
      high_priority |-> f[1], time_sensitive |-> f[2], action_count |-> a,
      followup |-> f[3], caps |-> f[4], exclaim |-> f[5], tag |-> f[6],
      deadline |-> f[7], replies |-> f[8]] :
        sn \in ScoredSenders, a \in 0..2, f \in [1..8 -> BOOLEAN]}

\* the first verdict of the loop over the user's patterns: 50 for a VIP
\* pattern, -100 for an ignored one, 0 when the loop ends without returning
RECURSIVE pattern_verdict(_, _)
pattern_verdict(user_patterns, sender_lower) ==
    IF user_patterns = <<>> THEN 0
    ELSE LET pattern == Head(user_patterns)
             hit == /\ pattern.pattern_type = "sender"
                    /\ Contains(sender_lower, Lower(pattern.pattern_value))
         IN  IF pattern.is_vip /\ hit THEN 50
             ELSE IF pattern.is_ignored /\ hit THEN 0 - 100
             ELSE pattern_verdict(Tail(user_patterns), sender_lower)

\* the historical patterns: a matching sender pattern marked urgent more than
\* twice as often as not
frequently_urgent(user_patterns, sender_lower) ==
    \E k \in 1..Len(user_patterns) :
        /\ user_patterns[k].pattern_type = "sender"
        /\ Contains(sender_lower, Lower(user_patterns[k].pattern_value))
        /\ user_patterns[k].times_marked_urgent
              > user_patterns[k].times_marked_not_urgent * 2

check_sender_importance(sender_email, sender_name, user_patterns) ==
    IF sender_email = <<>> THEN 0
    ELSE LET sender_lower == Lower(sender_email)
             sender_name_lower == Lower(sender_name)
             verdict == pattern_verdict(user_patterns, sender_lower)
         IN  IF verdict # 0 THEN verdict
             ELSE IF \E k \in 1..Len(IMPORTANT_TITLES) :
                        \/ Contains(sender_name_lower, IMPORTANT_TITLES[k])
                        \/ Contains(sender_lower, IMPORTANT_TITLES[k])
                  THEN 40
             ELSE IF AnyIn(important_domains, sender_lower) THEN 30
             ELSE IF frequently_urgent(user_patterns, sender_lower) THEN 35
             ELSE 0

\* a variant for comparison: no cap
cap_score_none(score) == score

\* score = min(score, 100)
cap_score(score) == IF score < 100 THEN score ELSE 100

\* calculate_urgency_score: the points of the signals, the sender's only
\* when positive, capped at 100; raw is the sum before the cap
calculate_urgency_score(email, user_patterns) ==
    LET sender_score == check_sender_importance(email.sender, email.sender_name,
                                                user_patterns)
        points == (IF email.high_priority THEN 30 ELSE 0)
                  + (IF email.time_sensitive THEN 20 ELSE 0)
                  + 15 * email.action_count
                  + (IF email.followup THEN 15 ELSE 0)
                  + (IF sender_score > 0 THEN sender_score ELSE 0)
                  + (IF email.caps THEN 10 ELSE 0)
                  + (IF email.exclaim THEN 10 ELSE 0)
                  + (IF email.tag THEN 20 ELSE 0)
                  + (IF email.deadline THEN 25 ELSE 0)
                  + (IF email.replies THEN 15 ELSE 0)
    IN  [score |-> cap_score(points), raw |-> points, sender_score |-> sender_score]

\* a pattern of the user with the flag set occurs in the sender
sender_matches(email, user_patterns, flag) ==
    \E k \in 1..Len(user_patterns) :
        /\ user_patterns[k][flag]
        /\ user_patterns[k].pattern_type = "sender"
        /\ Contains(Lower(email.sender), Lower(user_patterns[k].pattern_value))

should_mark_urgent(email, user_patterns) ==
    LET c == calculate_urgency_score(email, user_patterns)
    IN  [kind |-> "scored",
         raw |-> c.raw,
         score |-> c.score,
         is_urgent |-> c.score >= urgency_threshold,
         sender_score |-> c.sender_score,
         ignored |-> sender_matches(email, user_patterns, "is_ignored"),
         vip |-> sender_matches(email, user_patterns, "is_vip"),
         sender |-> email.sender,
         sender_name |-> email.sender_name]

\* the pattern values learn_from_correction derives from the senders
Domains == {<<"l","i","d","s",".","c","o","m">>, <<"b","o","s","s",".","c","o","m",">">>}

\* most times a pattern is marked either way at the start
MaxMarked == 1

\* the row of a domain at the start: none, or one with any flags and with
\* counts up to marked
PatternRows(domain, marked) ==
    {<<>>} \cup
    {<<[pattern_type |-> "sender", pattern_value |-> domain, is_vip |-> v,
        is_ignored |-> g, times_marked_urgent |-> u, times_marked_not_urgent |-> n]>> :
          v \in BOOLEAN, g \in BOOLEAN, u \in 0..marked, n \in 0..marked}

\* the pattern tables at the start: at most one row for a domain
PatternTables ==
    {a \o b : a \in PatternRows(<<"l","i","d","s",".","c","o","m">>, MaxMarked),
              b \in PatternRows(<<"b","o","s","s",".","c","o","m",">">>, 0)}

InitScore ==
    /\ MailInit
    /\ ResolverIdle
    /\ ApartIdle
    /\ patterns \in PatternTables
    /\ scored = NoScore
    /\ corrections = EmptyBag
    /\ learnt = NoLearning

\* one call of should_mark_urgent
Score(email) ==
    /\ scored = NoScore
    /\ scored' = should_mark_urgent(email, patterns)
    /\ UNCHANGED <<mirror, gmail, now, convCtx, inflight, nprop, shown, executed, closed,
                   lastAct, inbox, resolved, patterns, corrections, learnt, apart>>

NextScore == \E email \in ScoredEmails : Score(email)

SpecScore == InitScore /\ [][NextScore]_vars

----------------------------------------------------------------------------
(* Learning from corrections: PATCH /emails/{id}/urgency and POST
   /emails/urgency/learn, both ending in learn_from_correction. The handler
   makes no await between its query and its commit, so a call is one step;
   the posted corrections are handled in any order. *)

\* most corrections posted
MaxCorrections == 2

\* email.sender.split('@')[1] if '@' in email.sender else email.sender
sender_domain(sender) ==
    IF Contains(sender, <<"@">>)
    THEN LET rest == SubSeq(sender, Find(sender, <<"@">>) + 1, Len(sender))
         IN  IF Contains(rest, <<"@">>) THEN SubSeq(rest, 1, Find(rest, <<"@">>) - 1)
             ELSE rest
    ELSE sender

\* the rows the query of learn_from_correction matches
pattern_rows(table, domain) ==
    {k \in 1..Len(table) : /\ table[k].pattern_type = "sender"
                           /\ table[k].pattern_value = domain}

\* times_marked_urgent plus times_marked_not_urgent over the rows of a domain
RECURSIVE marks(_, _)
marks(table, domain) ==
    IF table = <<>> THEN 0
    ELSE (IF Head(table).pattern_value = domain
          THEN Head(table).times_marked_urgent + Head(table).times_marked_not_urgent
          ELSE 0) + marks(Tail(table), domain)

InitLearn ==
    /\ MailInit
    /\ ResolverIdle
    /\ ApartIdle
    /\ patterns \in PatternTables
    /\ scored = NoScore
    /\ corrections = EmptyBag
    /\ learnt = [NoLearning EXCEPT !.handled = [d \in Domains |-> 0],
                                   !.initial = [d \in Domains |-> marks(patterns, d)]]

\* a correction is posted for an email of the sender
PostCorrection(sender, corrected_to_urgent) ==
    /\ BagCardinality(corrections)
          + learnt.handled[sender_domain(sender)]
          + learnt.handled[CHOOSE d \in Domains : d # sender_domain(sender)]
          < MaxCorrections
    /\ corrections' = corrections (+) SetToBag({[sender |-> sender,
                                     corrected_to_urgent |-> corrected_to_urgent]})
    /\ UNCHANGED <<mirror, gmail, now, convCtx, inflight, nprop, shown, executed, closed,
                   lastAct, inbox, resolved, patterns, scored, learnt, apart>>

\* learn_from_correction. A row found is counted up and committed. Without a
\* row the code builds UrgencyPattern(user_id, pattern_type, pattern_value):
\* the column defaults of 0 are applied at INSERT, the new object's counts are
\* None, and += 1 raises TypeError before the commit; nothing is stored.
learn_from_correction(c) ==
    /\ BagIn(c, corrections)
    /\ corrections' = corrections (-) SetToBag({c})
    /\ LET domain == sender_domain(c.sender)
           found == pattern_rows(patterns, domain)
       IN  /\ IF found = {}
              THEN patterns' = patterns
              ELSE LET k == CHOOSE x \in found : \A y \in found : x <= y
                   IN  patterns' =
                         IF c.corrected_to_urgent
                         THEN [patterns EXCEPT ![k].times_marked_urgent = @ + 1]
                         ELSE [patterns EXCEPT ![k].times_marked_not_urgent = @ + 1]
           /\ learnt' = [learnt EXCEPT
                           !.handled[domain] = @ + 1,
                           !.last = [domain |-> domain,
                                     corrected_to_urgent |-> c.corrected_to_urgent,
                                     existed |-> found # {},
                                     raised |-> found = {}]]
    /\ UNCHANGED <<mirror, gmail, now, convCtx, inflight, nprop, shown, executed, closed,
                   lastAct, inbox, resolved, scored, apart>>

NextLearn ==
    \/ \E sn \in ScoredSenders, corrected_to_urgent \in BOOLEAN :
          PostCorrection(sn.sender, corrected_to_urgent)
    \/ \E c \in BagToSet(corrections) : learn_from_correction(c)

SpecLearn == InitLearn /\ [][NextLearn]_vars

----------------------------------------------------------------------------
(* Deadlines: extract_deadlines and step 7 of calculate_urgency_score. A
   datetime is the number of seconds since 2026-01-01 00:00:00; the years
   the model reaches, 2026 and 2027, have 365 days. A text is the sequence
   of the deadline phrases the patterns of extract_deadlines find in it. *)

\* most deadline phrases in a text
MaxPhrases == 2

SecondsPerHour == 3600

SecondsPerDay == 86400

BaseYear == 2026

\* days from 2026-01-01 to datetime.max, 9999-12-31
LastDay == 2912442

\* Python's None where a datetime is expected
None == 0 - 1

days_before_month == <<0, 31, 59, 90, 120, 151, 181, 212, 243, 273, 304, 334>>

days_in_month == <<31, 28, 31, 30, 31, 30, 31, 31, 30, 31, 30, 31>>

\* datetime(year, month, day); None stands for the ValueError of a date that
\* does not exist
datetime(year, month, day) ==
    IF month \in 1..12 /\ day \in 1..days_in_month[month]
    THEN ((year - BaseYear) * 365 + days_before_month[month] + day - 1) * SecondsPerDay
    ELSE None

\* t.year
year_of(t) == BaseYear + t \div (365 * SecondsPerDay)

\* t.month
month_of(t) ==
    LET day_of_year == (t \div SecondsPerDay) % 365
    IN  CHOOSE m \in 1..12 :
            /\ days_before_month[m] <= day_of_year
            /\ day_of_year < days_before_month[m] + days_in_month[m]

\* t.weekday(): 2026-01-01 is a Thursday
weekday(t) == (3 + t \div SecondsPerDay) % 7

\* t.replace(hour=23, minute=59, second=59)
end_of_day(t) == (t \div SecondsPerDay) * SecondsPerDay + SecondsPerDay - 1

\* the weekdays dict of _parse_weekday
weekdays ==
    [day_name \in {"monday", "tuesday", "wednesday", "thursday", "friday", "saturday",
                   "sunday"} |->
        CASE day_name = "monday" -> 0
          [] day_name = "tuesday" -> 1
          [] day_name = "wednesday" -> 2
          [] day_name = "thursday" -> 3
          [] day_name = "friday" -> 4
          [] day_name = "saturday" -> 5
          [] day_name = "sunday" -> 6]

_parse_weekday(day_name, clock) ==
    IF day_name \in DOMAIN weekdays
    THEN LET days_ahead == weekdays[day_name] - weekday(clock)
         IN  clock + (IF days_ahead <= 0 THEN days_ahead + 7 ELSE days_ahead) * SecondsPerDay
    ELSE IF day_name = "today" THEN clock
    ELSE IF day_name = "tomorrow" THEN clock + SecondsPerDay
    ELSE None

\* _parse_date: the date in the current year, or in the next one when it is
\* before the clock; None when the date does not exist
_parse_date(month, day, clock) ==
    LET current_year == year_of(clock)
        date == datetime(current_year, month, day)
    IN  IF date = None THEN None
        ELSE IF date < clock THEN datetime(current_year + 1, month, day)
        ELSE date

_parse_end_of(period, clock) ==
    IF period \in {"day", "today"} THEN end_of_day(clock)
    ELSE IF period = "week"
    THEN LET days_until_friday == 4 - weekday(clock)
         IN  end_of_day(clock + (IF days_until_friday < 0 THEN days_until_friday + 7
                                 ELSE days_until_friday) * SecondsPerDay)
    ELSE IF period = "month"
    THEN LET first_of_next == IF month_of(clock) = 12
                              THEN datetime(year_of(clock) + 1, 1, 1)
                              ELSE datetime(year_of(clock), month_of(clock) + 1, 1)
         IN  end_of_day(first_of_next - SecondsPerDay)
    ELSE None

\* datetime.now() + timedelta(hours=amount) or timedelta(days=amount) raises
\* OverflowError when the result is past datetime.max
within_overflows(amount, unit, clock) ==
    clock \div SecondsPerDay + (IF unit = "hours" THEN amount \div 24 ELSE amount) > LastDay

within_deadline(amount, unit, clock) ==
    clock + amount * (IF unit = "hours" THEN SecondsPerHour ELSE SecondsPerDay)

\* the deadline phrases of the texts
Phrases ==
    {[type |-> "within", amount |-> a, unit |-> u] :
        a \in {0, 3, 48, 49, 100000000}, u \in {"hours", "days"}}
    \cup {[type |-> "date", month |-> md[1], day |-> md[2]] :
            md \in {<<11, 1>>, <<11, 2>>, <<11, 3>>, <<11, 5>>, <<2, 30>>}}
    \cup {[type |-> "relative_day", day_name |-> d] :
            d \in {"monday", "wednesday", "today", "holiday"}}
    \cup {[type |-> "end_of", period |-> p] : p \in {"day", "week", "month", "year"}}

Texts == UNION {[1..n -> Phrases] : n \in 1..MaxPhrases}

\* the clock when an email is scored: Monday 2026-11-02 at 10:00 and at
\* 00:00, and Thursday 2026-12-31 at 23:00
Clocks ==
    {datetime(2026, 11, 2) + 10 * SecondsPerHour,
     datetime(2026, 11, 2),
     datetime(2026, 12, 31) + 23 * SecondsPerHour}

\* seconds between the clock readings of extract_deadlines and the reading
\* of calculate_urgency_score that follows them
Elapsed == {0, 1}

\* the deadline of one phrase; None where the code appends nothing
phrase_deadline(phrase, clock) ==
    CASE phrase.type = "relative_day" -> _parse_weekday(phrase.day_name, clock)
      [] phrase.type = "date" -> _parse_date(phrase.month, phrase.day, clock)
      [] phrase.type = "within" -> within_deadline(phrase.amount, phrase.unit, clock)
      [] phrase.type = "end_of" -> _parse_end_of(phrase.period, clock)

\* extract_deadlines: the deadlines of the phrases, or the exception of a
\* 'within' amount too large for a datetime
extract_deadlines(text, clock) ==
    IF \E k \in 1..Len(text) :
          /\ text[k].type = "within"
          /\ within_overflows(text[k].amount, text[k].unit, clock)
    THEN [raised |-> TRUE, deadlines |-> {}]
    ELSE [raised |-> FALSE,
          deadlines |-> {phrase_deadline(text[k], clock) : k \in 1..Len(text)} \ {None}]

\* (deadline - now).days <= 2 for some deadline
deadline_signal(deadlines, clock_now) ==
    \E deadline \in deadlines : (deadline - clock_now) \div SecondsPerDay <= 2

\* a phrase of the text holds one of TIME_SENSITIVE_KEYWORDS: 'within',
\* 'by end of' or 'today'
text_time_sensitive(text) ==
    \E k \in 1..Len(text) :
        \/ text[k].type \in {"within", "end_of"}
        \/ text[k].type = "relative_day" /\ text[k].day_name = "today"

\* the emails scored here: from deals@lids.com, with or without a
\* high-priority keyword, and no signal besides those of the phrases
DeadlineEmails ==
    {[sender |-> <<"d","e","a","l","s","@","l","i","d","s",".","c","o","m">>,
      sender_name |-> <<"d","e","a","l","s","@","l","i","d","s",".","c","o","m">>,
      high_priority |-> h, time_sensitive |-> FALSE, action_count |-> 0,
      followup |-> FALSE, caps |-> FALSE, exclaim |-> FALSE, tag |-> FALSE,
      deadline |-> FALSE, replies |-> FALSE] : h \in BOOLEAN}

\* should_mark_urgent on an email whose text holds the phrases: no try
\* surrounds extract_deadlines, so its exception ends the call
classify(email, text, clock, elapsed) ==
    LET extracted == extract_deadlines(text, clock)
        fired == deadline_signal(extracted.deadlines, clock + elapsed)
        seen == [email EXCEPT !.time_sensitive = text_time_sensitive(text)]
        verdict == should_mark_urgent([seen EXCEPT !.deadline = fired], patterns)
        base == [NoClassification EXCEPT !.text = text, !.clock = clock,
                                         !.now = clock + elapsed,
                                         !.rest = should_mark_urgent(seen, patterns).score]
    IN  IF extracted.raised
        THEN [base EXCEPT !.kind = "raised", !.raised = TRUE]
        ELSE [base EXCEPT !.kind = "scored", !.deadlines = extracted.deadlines,
                          !.fired = fired, !.score = verdict.score,
                          !.is_urgent = verdict.is_urgent]

\* an email has arrived whose text and time of scoring are any of the above
InitDeadline ==
    /\ MailInit
    /\ ResolverIdle
    /\ UrgencyIdle
    /\ classified \in {[NoClassification EXCEPT !.text = text, !.clock = clock] :
                          text \in Texts, clock \in Clocks}
    /\ owned = <<>>
    /\ trashed = NoTrash
    /\ urgent = NoUrgent
    /\ fetching = NoFetch

\* one call of should_mark_urgent
Classify(email, elapsed) ==
    /\ classified.kind = "none"
    /\ classified' = classify(email, classified.text, classified.clock, elapsed)
    /\ UNCHANGED <<mirror, gmail, now, convCtx, inflight, nprop, shown, executed, closed,
                   lastAct, inbox, resolved, patterns, scored, corrections, learnt,
                   owned, trashed, urgent, fetching>>

NextDeadline ==
    \E email \in DeadlineEmails, elapsed \in Elapsed : Classify(email, elapsed)

SpecDeadline == InitDeadline /\ [][NextDeadline]_vars

----------------------------------------------------------------------------
(* Ownership: the trash loop of _delete_email on an emails table that holds
   the rows of two users. The pending list comes with the request, so it can
   name any id. *)

\* most emails in a pending list
MaxPending == 2

Users == {"alice", "bob"}

OwnedIds == {"a1", "a2", "b1"}

\* Email.user_id of each row
owner_of(id) == IF id = "b1" THEN "bob" ELSE "alice"

\* the tables at the start: every row active or trashed, with or without
\* labels
OwnedTables ==
    {[id \in OwnedIds |->
        [row |-> TRUE, user_id |-> owner_of(id), gmail_id |-> TRUE,
         deleted_at |-> id \in D, labels |-> IF id \in L THEN {"INBOX"} ELSE {}]] :
        D \in SUBSET OwnedIds, L \in SUBSET OwnedIds}

PendingLists == UNION {[1..n -> OwnedIds] : n \in 1..MaxPending}

\* a variant for comparison: the row is looked up by its id alone
lookup_any_owner(table, id, user) == table[id]

\* db.query(Email).filter(Email.id == id, Email.user_id == user.id).first()
lookup(table, id, user) ==
    IF table[id].user_id = user THEN table[id]
    ELSE [table[id] EXCEPT !.row = FALSE]

\* one pass of the loop for the user who confirmed; the local update is the
\* same whatever the provider answers
OwnedTrashStep(st, id, user) ==
    LET email == lookup(st.table, id, user)
    IN  IF ~email.row
        THEN [st EXCEPT !.failed_count = @ + 1]
        ELSE IF ~email.gmail_id
        THEN [st EXCEPT !.failed_count = @ + 1]
        ELSE [st EXCEPT !.table = [@ EXCEPT ![id] = trash_locally(@)],
                        !.called = @ \cup {id},
                        !.success_count = @ + 1]

RECURSIVE OwnedTrashLoop(_, _, _)
OwnedTrashLoop(st, emails, user) ==
    IF emails = <<>> THEN st
    ELSE OwnedTrashLoop(OwnedTrashStep(st, Head(emails), user), Tail(emails), user)

InitOwner ==
    /\ MailInit
    /\ ResolverIdle
    /\ UrgencyIdle
    /\ classified = NoClassification
    /\ owned \in OwnedTables
    /\ trashed = NoTrash
    /\ urgent = NoUrgent
    /\ fetching = NoFetch

\* the user confirms a request whose pending_delete lists the emails
ConfirmAs(user, emails) ==
    /\ LET start == [table |-> owned, called |-> {}, success_count |-> 0,
                     failed_count |-> 0]
           st == OwnedTrashLoop(start, emails, user)
       IN  /\ owned' = st.table
           /\ trashed' = [kind |-> "confirmed", user |-> user, emails |-> emails,
                          before |-> owned, called |-> st.called,
                          success_count |-> st.success_count,
                          failed_count |-> st.failed_count]
    /\ UNCHANGED <<mirror, gmail, now, convCtx, inflight, nprop, shown, executed, closed,
                   lastAct, inbox, resolved, patterns, scored, corrections, learnt,
                   classified, urgent, fetching>>

NextOwner == \E user \in Users, emails \in PendingLists : ConfirmAs(user, emails)

SpecOwner == InitOwner /\ [][NextOwner]_vars

----------------------------------------------------------------------------
(* Urgent processing: POST /emails/sync, POST /emails/urgent/process and the
   process_urgent_emails tasks they create, on one event loop. A step is the
   code a coroutine runs between two suspensions: put and get on the
   unbounded queue do not suspend, the call of the analysis and
   asyncio.sleep do. A created task starts when the loop reaches it. *)

\* most manual-process requests
MaxManual == 3

UrgentIds == {"u1", "u2"}

\* URGENCY_BATCH_SIZE, by default
batch_size == 5

\* GmailService.fetch_recent_emails: the stub returns no email
fetch_recent_emails == <<>>

\* the numbers of action items an analysis yields with enough confidence
ItemCounts == {0, 1}

Min(a, b) == IF a < b THEN a ELSE b

\* the rows of a query without order_by, in the order of the table
RECURSIVE OrderByName(_)
OrderByName(S) ==
    IF S = {} THEN <<>>
    ELSE IF "u1" \in S THEN <<"u1">> \o OrderByName(S \ {"u1"})
    ELSE <<"u2">> \o OrderByName(S \ {"u2"})

\* the tasks that are scheduled or running
LiveTasks == {t \in 1..Len(urgent.tasks) : urgent.tasks[t].pc # "done"}

\* asyncio.create_task(process_urgent_emails(db)) when the flag is not set
create_task(u, wanted) ==
    IF wanted /\ ~u.flag
    THEN [u EXCEPT !.tasks = Append(@, [pc |-> "scheduled", batch |-> <<>>])]
    ELSE u

InitUrgent ==
    /\ MailInit
    /\ ResolverIdle
    /\ UrgencyIdle
    /\ classified = NoClassification
    /\ owned = <<>>
    /\ trashed = NoTrash
    /\ urgent = [NoUrgent EXCEPT !.is_urgent = [e \in UrgentIds |-> FALSE],
                                 !.analyzed = [e \in UrgentIds |-> FALSE],
                                 !.analyses = [e \in UrgentIds |-> 0],
                                 !.created = [e \in UrgentIds |-> 0]]
    /\ fetching = NoFetch

\* what the steps below leave alone
UrgentFrame ==
    UNCHANGED <<mirror, gmail, now, convCtx, inflight, nprop, shown, executed, closed,
                lastAct, inbox, resolved, patterns, scored, corrections, learnt,
                classified, owned, trashed, fetching>>

\* PATCH /emails/{id}/urgency with is_urgent true
MarkUrgent(e) ==
    /\ ~urgent.is_urgent[e]
    /\ urgent' = [urgent EXCEPT !.is_urgent[e] = TRUE, !.last = "mark"]
    /\ UrgentFrame

\* POST /emails/sync: the new emails that are urgent are queued, and a task
\* is created when there was one and the flag is not set
SyncRequest ==
    /\ LET new_emails == fetch_recent_emails
           urgent_count == Len(new_emails)
       IN  urgent' = [create_task([urgent EXCEPT !.queue = @ \o new_emails],
                                  urgent_count > 0)
                        EXCEPT !.last = "sync"]
    /\ UrgentFrame

\* POST /emails/urgent/process: the urgent emails not yet analysed are
\* queued, and a task is created when the queue is not empty and the flag
\* is not set
ManualProcess ==
    /\ urgent.manual < MaxManual
    /\ LET urgent_emails == OrderByName({e \in UrgentIds :
                                 urgent.is_urgent[e] /\ ~urgent.analyzed[e]})
           queued == [urgent EXCEPT !.queue = @ \o urgent_emails]
       IN  urgent' = [create_task(queued, queued.queue # <<>>)
                        EXCEPT !.manual = @ + 1, !.last = "manual"]
    /\ UrgentFrame

\* process_urgent_emails at the head of its while loop: with the queue empty
\* it leaves through finally; otherwise it takes a batch and calls the
\* analysis of its first email
loop_head(u, t) ==
    IF u.queue = <<>>
    THEN [u EXCEPT !.flag = FALSE, !.tasks[t] = [pc |-> "done", batch |-> <<>>]]
    ELSE LET n == Min(batch_size, Len(u.queue))
         IN  [u EXCEPT !.queue = SubSeq(@, n + 1, Len(@)),
                       !.tasks[t] = [pc |-> "analysing", batch |-> SubSeq(u.queue, 1, n)]]

\* the loop reaches a created task: it sets the flag and enters its loop
TaskStart(t) ==
    /\ urgent.tasks[t].pc = "scheduled"
    /\ urgent' = [loop_head([urgent EXCEPT !.flag = TRUE], t) EXCEPT !.last = "task"]
    /\ UrgentFrame

\* the analysis of the first email of the batch returns: urgency_analyzed_at
\* is set, the action items are created and committed, and the task goes on
\* to the next email or to asyncio.sleep
TaskAnalysed(t, items) ==
    /\ urgent.tasks[t].pc = "analysing"
    /\ LET email == Head(urgent.tasks[t].batch)
           rest == Tail(urgent.tasks[t].batch)
       IN  urgent' = [urgent EXCEPT
                        !.analyzed[email] = TRUE,
                        !.analyses[email] = @ + 1,
                        !.created[email] = IF items > 0 THEN @ + 1 ELSE @,
                        !.tasks[t] = IF rest = <<>> THEN [pc |-> "sleeping", batch |-> <<>>]
                                     ELSE [pc |-> "analysing", batch |-> rest],
                        !.last = "task"]
    /\ UrgentFrame

\* asyncio.sleep returns
TaskWake(t) ==
    /\ urgent.tasks[t].pc = "sleeping"
    /\ urgent' = [loop_head(urgent, t) EXCEPT !.last = "task"]
    /\ UrgentFrame

NextUrgent ==
    \/ \E e \in UrgentIds : MarkUrgent(e)
    \/ SyncRequest
    \/ ManualProcess
    \/ \E t \in 1..Len(urgent.tasks) : TaskStart(t)
    \/ \E t \in 1..Len(urgent.tasks), items \in ItemCounts : TaskAnalysed(t, items)
    \/ \E t \in 1..Len(urgent.tasks) : TaskWake(t)

SpecUrgent == InitUrgent /\ [][NextUrgent]_vars

----------------------------------------------------------------------------
(* fetch_emails as a procedure: its retry loop, the loop over the listed
   messages, and its ways out. What the provider and the database answer is
   chosen freely at each call. *)

\* most messages a list call returns
MaxListed == 6

\* max_retries of fetch_emails
max_retries == 3

\* failed_count above which the loop switches to _fallback_sync
failure_limit == 5

\* what the attempt to list can meet: get_service raising (no token), the
\* list returned, 401 with the service rebuilt or not, 429, another
\* HttpError, any other exception
ListOutcomes == {"no_token", "ok", "401", "401_refresh_failed", "429", "http_error",
                 "exception"}

\* what handling one message can meet: stored, not fetched after the tries
\* of _fetch_message_with_retry, or an exception while parsing or storing
MessageOutcomes == {"ok", "none", "exception"}

CallOutcomes == {"ok", "exception"}

\* a variant for comparison: the retry is not counted
next_retry_uncounted(retry_count) == retry_count

\* retry_count += 1
next_retry(retry_count) == retry_count + 1

\* _fetch_message_with_retry: the message of the first try that succeeds
\* among max_retries = 2, else None
fetch_message_with_retry(tries) ==
    IF tries[1] = "ok" \/ tries[2] = "ok" THEN "ok" ELSE "none"

\* one more call of messages().list; the count stops above max_retries
counted(list_attempts) ==
    IF list_attempts > max_retries THEN list_attempts ELSE list_attempts + 1

\* 'except Exception' of the retry loop: retry_count += 1, then the cached
\* fallback when the retries are used up, else the loop again
on_exception(f) ==
    LET retry_count == next_retry(f.retry_count)
    IN  [f EXCEPT !.retry_count = retry_count,
                  !.pc = IF retry_count >= max_retries THEN "basic" ELSE "loop"]

\* the call begins
InitFetch ==
    /\ MailInit
    /\ ResolverIdle
    /\ UrgencyIdle
    /\ classified = NoClassification
    /\ owned = <<>>
    /\ trashed = NoTrash
    /\ urgent = NoUrgent
    /\ fetching = [NoFetch EXCEPT !.pc = "loop"]

FetchFrame ==
    UNCHANGED <<mirror, gmail, now, convCtx, inflight, nprop, shown, executed, closed,
                lastAct, inbox, resolved, patterns, scored, corrections, learnt,
                classified, owned, trashed, urgent>>

\* one pass of 'while retry_count < max_retries' up to the list call
ListMessages(outcome, n) ==
    /\ fetching.pc = "loop"
    /\ fetching.retry_count < max_retries
    /\ fetching' =
          CASE outcome = "no_token" -> on_exception(fetching)
            [] outcome = "ok" ->
                 [fetching EXCEPT !.list_attempts = counted(@), !.pc = "messages",
                                  !.listed = n, !.handled = 0, !.failed_count = 0]
            [] outcome \in {"401", "429"} ->
                 [fetching EXCEPT !.list_attempts = counted(@),
                                  !.retry_count = next_retry(@)]
            [] outcome \in {"401_refresh_failed", "http_error"} ->
                 [fetching EXCEPT !.list_attempts = counted(@), !.pc = "raised"]
            [] outcome = "exception" ->
                 on_exception([fetching EXCEPT !.list_attempts = counted(@)])
    /\ FetchFrame

\* the while condition fails: 'All retry attempts failed'
RetriesUsedUp ==
    /\ fetching.pc = "loop"
    /\ fetching.retry_count >= max_retries
    /\ fetching' = [fetching EXCEPT !.pc = "exhausted"]
    /\ FetchFrame

\* the loop body for the next listed message
HandleMessage(tries, stored) ==
    /\ fetching.pc = "messages"
    /\ fetching.handled < fetching.listed
    /\ LET next == [fetching EXCEPT !.handled = @ + 1]
       IN  fetching' =
             IF fetch_message_with_retry(tries) = "none"
             THEN [next EXCEPT !.failed_count = @ + 1]
             ELSE IF stored = "ok" THEN next
             ELSE IF next.failed_count + 1 > failure_limit
             THEN [next EXCEPT !.failed_count = @ + 1, !.pc = "fallback"]
             ELSE [next EXCEPT !.failed_count = @ + 1]
    /\ FetchFrame

\* db.commit() after the loop, and the return of the live result
Commit(outcome) ==
    /\ fetching.pc = "messages"
    /\ fetching.handled = fetching.listed
    /\ fetching' = IF outcome = "ok"
                   THEN [fetching EXCEPT !.pc = "returned", !.result = "live"]
                   ELSE on_exception(fetching)
    /\ FetchFrame

\* _fallback_sync: its result is returned; an exception of its commit
\* reaches 'except Exception' of the retry loop
FallbackSyncCall(outcome) ==
    /\ fetching.pc = "fallback"
    /\ fetching' = IF outcome = "ok"
                   THEN [fetching EXCEPT !.pc = "returned", !.result = "partial"]
                   ELSE on_exception(fetching)
    /\ FetchFrame

\* _fallback_basic_sync, called from 'except Exception' or after the loop:
\* its result is returned; an exception of its query leaves fetch_emails
FallbackBasicCall(outcome) ==
    /\ fetching.pc \in {"basic", "exhausted"}
    /\ fetching' = IF outcome = "ok"
                   THEN [fetching EXCEPT !.pc = "returned", !.result = "cached"]
                   ELSE [fetching EXCEPT !.pc = "raised"]
    /\ FetchFrame

NextFetch ==
    \/ \E outcome \in ListOutcomes, n \in 0..MaxListed : ListMessages(outcome, n)
    \/ RetriesUsedUp
    \/ \E tries \in [1..2 -> CallOutcomes], stored \in CallOutcomes :
          HandleMessage(tries, stored)
    \/ \E outcome \in CallOutcomes : Commit(outcome)
    \/ \E outcome \in CallOutcomes : FallbackSyncCall(outcome)
    \/ \E outcome \in CallOutcomes : FallbackBasicCall(outcome)

SpecFetch == InitFetch /\ [][NextFetch]_vars

\* the procedure keeps running until it returns or raises
SpecFetchRuns == SpecFetch /\ WF_vars(NextFetch)

----------------------------------------------------------------------------
(* The claims *)

\* the utterances that hold a cancellation keyword of process_message
Cancelling == {u \in Utterances : IsCancellationKeyword(u)}

\* the utterances that are neither a confirmation nor a cancellation
Ambiguous == {u \in Utterances : /\ ~IsConfirmationKeyword(u)
                                 /\ ~IsCancellationKeyword(u)
                                 /\ u \notin Confirming}

\* the last step answered a pending delete
Responded == lastAct.kind \in {"confirmed", "cancelled"}

\* the candidates of the pending delete the last step was given
Candidates == Ids(lastAct.pending.emails)

C2_CancelNeverMutates ==
    (Responded /\ lastAct.utt \in Cancelling) =>
        lastAct.changed = {} /\ lastAct.called = {}

\* C3, as claimed: every message the agent mutates was listed in an earlier
\* proposal, and it is mutated only by the confirmation of a proposal.
C3_OnlyWhatWasShown ==
    /\ lastAct.mutated \subseteq shown
    /\ lastAct.mutated # {} => lastAct.kind = "confirmed"

\* C4, as claimed: an answer that is neither a confirmation nor a cancellation
\* leaves the pending action in the context, candidates unchanged.
C4_AmbiguousKeepsPending ==
    (Responded /\ lastAct.utt \in Ambiguous) => convCtx = lastAct.pending

\* C5, as claimed: no trash loop runs for a pending action whose TTL has
\* elapsed since its timestamp.
C5_ExpiredNeverExecutes ==
    lastAct.kind = "confirmed" => now - lastAct.pending.timestamp <= TTL

\* C6, as claimed: once a pending action was confirmed or cancelled, no later
\* response executes it.
C6_TerminalIsFinal ==
    lastAct.kind = "confirmed" => ~lastAct.was_closed

\* C7, as claimed: the trash loop runs at most once for a pending action,
\* however many confirmations of it are in flight.
C7_ExecutedAtMostOnce ==
    lastAct.kind = "confirmed" => ~lastAct.again

\* C8, as claimed: a confirmed trash action passes over every candidate, and
\* every candidate with a row in the mirror ends soft-deleted with the TRASH
\* label, whatever the provider answered.
C8_AllProcessedAllTrashedLocally ==
    lastAct.kind = "confirmed" =>
        /\ lastAct.success_count + lastAct.failed_count = Len(lastAct.pending.emails)
        /\ \A m \in Candidates :
              mirror[m].row => mirror[m].deleted_at /\ "TRASH" \in mirror[m].labels

\* C9, as claimed: succeeded and failed partition the candidates, a candidate
\* the provider refused is not counted as succeeded, and the answer mentions
\* the failures whenever some candidate failed beside a success.
C9_PartialFailureReported ==
    lastAct.kind = "confirmed" =>
        /\ lastAct.success_count + lastAct.failed_count = Len(lastAct.pending.emails)
        /\ lastAct.success_count = Cardinality(lastAct.called \ lastAct.provider_failed)
        /\ (lastAct.success_count > 0 /\ lastAct.failed_count > 0)
              => lastAct.report = "moved_many_some_failed"

\* C10, as claimed: deleted_at is set exactly when the labels hold TRASH.
C10_TrashLabelIffDeletedAt ==
    \A m \in MsgIds :
        mirror[m].row => (mirror[m].deleted_at <=> "TRASH" \in mirror[m].labels)

\* the rows of the inbox that pass the filters of the criteria searched with
Matching == {i \in 1..Len(inbox) : query_filter(inbox[i], resolved.criteria)}

\* the ids the call returned
Returned == Ids(resolved.emails)

\* a call was made and did not end in its except branch
Searched == resolved # NoCall /\ ~resolved.raised

\* C11: the resolver returns no soft-deleted message and returns its
\* candidates by received time, newest first, for every criteria value and
\* every inbox.
C11_NoTrashedNewestFirst ==
    \A k \in 1..Len(resolved.emails) :
        /\ ~inbox[resolved.emails[k]].deleted_at
        /\ k < Len(resolved.emails) =>
              inbox[resolved.emails[k]].received_at
                 >= inbox[resolved.emails[k + 1]].received_at

\* C11 witness: a call returned several messages, not in the order of their
\* ids, from an inbox where a soft-deleted message passes the other filters.
C11_Witness ==
    /\ \E k \in 1..(Len(resolved.emails) - 1) : resolved.emails[k] > resolved.emails[k + 1]
    /\ \E i \in 1..Len(inbox) :
          inbox[i].deleted_at /\ query_filter_with_trashed(inbox[i], resolved.criteria)

\* C12: the result is capped. With a count the result holds the count most
\* recent matches and no more; without one it holds at most 50, the 50 most
\* recent matches.
C12_CappedToMostRecent ==
    Searched =>
        LET cap == IF resolved.criteria.count # 0 THEN resolved.criteria.count
                   ELSE SafetyCeiling
        IN  /\ Returned \subseteq Matching
            /\ Len(resolved.emails) = Cardinality(Returned)
            /\ Cardinality(Returned) =
                  IF Cardinality(Matching) < cap THEN Cardinality(Matching) ELSE cap
            /\ \A i \in Returned : \A j \in Matching \ Returned :
                  inbox[i].received_at > inbox[j].received_at

\* C12 witness: a search without a count over more than 50 matches returned 50.
C12_Witness ==
    /\ Searched
    /\ resolved.criteria.count = 0
    /\ Cardinality(Matching) > SafetyCeiling
    /\ Len(resolved.emails) = SafetyCeiling

\* the descriptions whose only identifying clause is "from X"
SenderOnly == {"delete all emails from Lids"}

\* C13, as claimed: for a description with the sender as its only signal the
\* search runs as if subject and content were empty, whatever the NLU answered.
C13_SenderOnlyIgnoresTopic ==
    (Searched /\ resolved.description \in SenderOnly) =>
        resolved.emails =
            query_emails(inbox, [resolved.criteria EXCEPT !.subject = <<>>, !.content = <<>>])

\* the sender and the count the fallback is said to extract
SaidSender(description) ==
    IF description \in {"delete all emails from Lids",
                        "move the last 20 emails from Lids to trash"}
    THEN <<"l","i","d","s">> ELSE <<>>

SaidCount(description) ==
    IF description = "move the last 20 emails from Lids to trash" THEN 20 ELSE 0

\* C14, as claimed: when the NLU answer is an error or no structured object,
\* the criteria are the first word after "from" as sender and the numeral of
\* "last N" as count, subject and content empty.
C14_FallbackSenderAndCount ==
    (Searched /\ resolved.response.kind # "dict" /\ SaidSender(resolved.description) # <<>>) =>
        resolved.criteria = [EmptyCriteria EXCEPT !.sender = SaidSender(resolved.description),
                                                  !.count = SaidCount(resolved.description)]

\* C15, as claimed: when the search finds no message the agent reports no
\* match and stores no pending action, an email being selected or not.
C15_NoMatchNoPending ==
    (lastAct.kind \in {"proposed", "no_match"} /\ lastAct.found = 0) =>
        lastAct.kind = "no_match" /\ convCtx = NoPending

\* C16: for every email and every pattern table the urgency score is a whole
\* number from 0 to 100 and the email is marked urgent exactly when the score
\* reaches the threshold.
C16_ScoreInRangeUrgentIffThreshold ==
    scored.kind = "scored" =>
        /\ scored.score \in 0..100
        /\ scored.is_urgent <=> scored.score >= urgency_threshold

\* C16 witness: the signals of an email sum to more than 100, the score is 100
\* and the email is urgent.
C16_Witness ==
    /\ scored.kind = "scored"
    /\ scored.raw > 100
    /\ scored.score = 100
    /\ scored.is_urgent

\* C17, as claimed: an email whose sender matches an ignored pattern is never
\* marked urgent, whatever else fires and even when a VIP pattern matches too.
C17_IgnoredNeverUrgent ==
    (scored.kind = "scored" /\ scored.ignored) => ~scored.is_urgent

\* the rows of the domain of the last correction
LastRows == pattern_rows(patterns, learnt.last.domain)

\* C18, as claimed: a correction for a domain without a pattern leaves one
\* pattern keyed by the domain, counted 1 for the correction made and 0 for
\* the other.
C18_FirstCorrectionCreatesPattern ==
    (learnt.last.domain # <<>> /\ ~learnt.last.existed) =>
        /\ Cardinality(LastRows) = 1
        /\ \A k \in LastRows :
              /\ patterns[k].times_marked_urgent
                    = IF learnt.last.corrected_to_urgent THEN 1 ELSE 0
              /\ patterns[k].times_marked_not_urgent
                    = IF learnt.last.corrected_to_urgent THEN 0 ELSE 1

\* C19, as claimed: after n corrections for a domain, handled in any order,
\* the domain has exactly one pattern row and its two counts together have
\* grown by n.
C19_NoLostCorrection ==
    \A d \in Domains :
        learnt.handled[d] > 0 =>
            /\ Cardinality(pattern_rows(patterns, d)) = 1
            /\ marks(patterns, d) = learnt.initial[d] + learnt.handled[d]

\* C20: after a sync returns, every email in its result has deleted_at set
\* if and only if its labels contain TRASH, on the normal path and on both
\* fallback paths
C20_SyncResultTrashConsistent ==
    lastAct.kind \in {"sync", "fallback_sync", "fallback_basic_sync"} =>
        \A m \in lastAct.result :
            mirror[m].deleted_at <=> "TRASH" \in mirror[m].labels

\* the points of the sender rules that match the scored sender: 50 for a VIP
\* pattern, 40 for a title, 35 for a frequently urgent history, 30 for a
\* sensitive domain
MatchingSenderRules ==
    LET sender_lower == Lower(scored.sender)
    IN  (IF scored.vip THEN {50} ELSE {})
        \cup (IF \E k \in 1..Len(IMPORTANT_TITLES) :
                    \/ Contains(Lower(scored.sender_name), IMPORTANT_TITLES[k])
                    \/ Contains(sender_lower, IMPORTANT_TITLES[k])
              THEN {40} ELSE {})
        \cup (IF frequently_urgent(patterns, sender_lower) THEN {35} ELSE {})
        \cup (IF AnyIn(important_domains, sender_lower) THEN {30} ELSE {})

\* what the sender added to the score
SenderContribution == IF scored.sender_score > 0 THEN scored.sender_score ELSE 0

\* C21: when several sender rules match (and no ignored pattern does), the
\* sender adds the points of the highest-scoring matching rule and no more
C21_HighestSenderRuleOnly ==
    (scored.kind = "scored" /\ ~scored.ignored /\ Cardinality(MatchingSenderRules) > 1) =>
        \A r \in MatchingSenderRules : SenderContribution >= r

\* the two days after the evaluation time
Within48Hours(deadline) ==
    /\ deadline >= classified.now
    /\ deadline - classified.now <= 48 * SecondsPerHour

\* C22: the 25 points of the deadline signal are added if and only if some
\* extracted deadline lies within 48 hours after the evaluation time
C22_DeadlineWithin48Hours ==
    classified.kind = "scored" =>
        (classified.fired <=> \E deadline \in classified.deadlines : Within48Hours(deadline))

\* the day a datetime falls on
DayOf(t) == t \div SecondsPerDay

\* C23: an MM/DD deadline is that date in the current year unless the date
\* has passed, and then the date in the next year; today's date stays in
\* the current year
C23_DateRollsOnlyWhenPassed ==
    classified.kind = "scored" =>
        \A k \in 1..Len(classified.text) :
            LET phrase == classified.text[k]
                this_year == datetime(year_of(classified.clock), phrase.month, phrase.day)
            IN  (phrase.type = "date" /\ this_year # None) =>
                    IF DayOf(this_year) < DayOf(classified.clock)
                    THEN datetime(year_of(classified.clock) + 1, phrase.month, phrase.day)
                            \in classified.deadlines
                    ELSE this_year \in classified.deadlines

\* C24: a failure while computing one signal is contained: the call still
\* returns, and the score is the one built from the remaining signals
C24_SignalFailureContained ==
    classified.kind # "none" =>
        /\ ~classified.raised
        /\ (~classified.fired => classified.score = classified.rest)

\* the places of the pending list that name an email of another user
ForeignPlaces == {k \in 1..Len(trashed.emails) : owner_of(trashed.emails[k]) # trashed.user}

\* C25: a confirmed trash action leaves every row of another user as it was
\* and calls the provider for none, and counts the ids of the pending list
\* that name such rows as failed
C25_OnlyOwnMessagesMutated ==
    trashed.kind = "confirmed" =>
        /\ \A id \in OwnedIds :
              owner_of(id) # trashed.user =>
                  /\ owned[id] = trashed.before[id]
                  /\ id \notin trashed.called
        /\ trashed.failed_count = Cardinality(ForeignPlaces)

\* a pending list that names an email of another user, still active, and an
\* own email, which the action trashed
C25_Witness ==
    /\ trashed.kind = "confirmed"
    /\ trashed.user = "alice"
    /\ trashed.emails = <<"b1", "a1">>
    /\ ~owned["b1"].deleted_at
    /\ ~trashed.before["a1"].deleted_at
    /\ owned["a1"].deleted_at
    /\ trashed.failed_count = 1

\* C26: when the provider's trash call failed during a confirmed trash
\* action, the sync that follows and fetches the message leaves it
\* soft-deleted
C26_SyncKeepsAgentTrash ==
    [][\A m \in MsgIds :
          (/\ lastAct.kind = "confirmed"
           /\ m \in lastAct.provider_failed
           /\ mirror[m].deleted_at
           /\ lastAct'.kind = "sync"
           /\ m \in lastAct'.result) => mirror'[m].deleted_at]_vars

\* C27: a REST trash or restore request whose provider call failed ends with
\* an error and leaves the mirror as it was; one whose provider call
\* succeeded has set deleted_at (trash) or cleared it (restore)
C27_RestUnchangedOnProviderFailure ==
    lastAct.kind \in {"rest_delete", "rest_restore"} =>
        IF lastAct.provider_failed # {}
        THEN /\ lastAct.report = "error"
             /\ lastAct.diff = {}
             /\ \A m \in lastAct.provider_failed :
                    mirror[m].deleted_at <=> lastAct.kind = "rest_restore"
        ELSE /\ lastAct.report = "ok"
             /\ \A m \in lastAct.called :
                    mirror[m].deleted_at <=> lastAct.kind = "rest_delete"

\* a REST trash request that the provider refused: the email is still active
C27_Witness ==
    /\ lastAct.kind = "rest_delete"
    /\ lastAct.provider_failed = {"m2"}
    /\ lastAct.report = "error"
    /\ ~mirror["m2"].deleted_at

\* C28: at most one process_urgent_emails task is scheduled or running at
\* any time
C28_OneUrgentProcessor == Cardinality(LiveTasks) <= 1

\* C29: each urgent email is analysed at most once, and action items are
\* created from it at most once
C29_AnalysedAtMostOnce ==
    urgent # NoUrgent =>
        \A e \in UrgentIds : urgent.analyses[e] <= 1 /\ urgent.created[e] <= 1

\* fetch_emails has returned a result or raised
FetchEnded == fetching.pc \in {"returned", "raised"}

\* C30: fetch_emails makes at most three list calls and always ends: it
\* returns a live, partial or cached result, or raises
C30_FetchTerminates ==
    /\ [](fetching.list_attempts <= max_retries)
    /\ [](fetching.pc = "returned" => fetching.result \in {"live", "partial", "cached"})
    /\ [](fetching.result = "partial" => fetching.failed_count > failure_limit)
    /\ <>FetchEnded

\* the third list call was rate-limited and the cached result was returned
C30_Witness ==
    /\ fetching.pc = "returned"
    /\ fetching.result = "cached"
    /\ fetching.list_attempts = max_retries
    /\ fetching.retry_count = max_retries

====
